---------------------------- MODULE Spec2Model ----------------------------
(***************************************************************************)
(* Model of the cadastral PDF parser: the text-acquisition chain of        *)
(* pdf_parser.py (validate, structured reader, plain reader, OCR) and the  *)
(* field extractor of data_extractor.py.                                   *)
(*                                                                         *)
(* A Python str is a sequence of one-character strings.  An Optional[str]  *)
(* or a local that may be unassigned is a record [kind, val] with kind in  *)
(* {"Str", "None", "Unbound"}.                                             *)
(***************************************************************************)
EXTENDS Integers, Sequences, FiniteSets, TLC

\* ------------------------------------------------------------------ bounds
\* Largest number of pages of a document handed to a reader.
MaxPages == 2

\* ------------------------------------------------------- program constants
\* pdf_parser.py:232/250/256: the quality threshold of the chain.
QualityThreshold == 50
\* pdf_parser.py:263 (and :95/:109 per page): the low floor.
LowFloor == 5
\* settings.MAX_PDF_SIZE_MB (settings.py is not part of the sources).
MAX_PDF_SIZE_MB == 50
\* settings.VALID_EXTENSIONS (settings.py is not part of the sources).
VALID_EXTENSIONS == { <<".", "p", "d", "f">> }
\* pdf_parser.py:198: bytes per megabyte, 1024 * 1024.
BytesPerMB == 1024 * 1024

\* ----------------------------------------------------------------- strings
WS == {" ", "\n", "\t"}

Rep(c, n) == [i \in 1..n |-> c]
X(n) == Rep("x", n)

RECURSIVE LeadWS(_)
LeadWS(s) == IF s = <<>> \/ Head(s) \notin WS THEN 0 ELSE 1 + LeadWS(Tail(s))

RECURSIVE TrailWS(_)
TrailWS(s) ==
    IF s = <<>> \/ s[Len(s)] \notin WS THEN 0
    ELSE 1 + TrailWS(SubSeq(s, 1, Len(s) - 1))

\* str.strip()
Strip(s) ==
    IF LeadWS(s) = Len(s) THEN <<>>
    ELSE SubSeq(s, LeadWS(s) + 1, Len(s) - TrailWS(s))

\* sep.join(parts)
RECURSIVE Join(_, _)
Join(parts, sep) ==
    IF parts = <<>> THEN <<>>
    ELSE IF Len(parts) = 1 THEN parts[1]
    ELSE parts[1] \o sep \o Join(Tail(parts), sep)

\* [f(x) for x in xs if keep(x)] with f the identity
RECURSIVE Keep(_, _)
Keep(xs, bad) ==
    IF xs = <<>> THEN <<>>
    ELSE IF Head(xs) \in bad THEN Keep(Tail(xs), bad)
    ELSE <<Head(xs)>> \o Keep(Tail(xs), bad)

\* [row for table in tables for row in table]
RECURSIVE Flatten(_)
Flatten(tables) ==
    IF tables = <<>> THEN <<>> ELSE Head(tables) \o Flatten(Tail(tables))

\* str.lower() on the suffixes the model uses
Lower(s) == [i \in 1..Len(s) |-> IF s[i] = "P" THEN "p"
                                 ELSE IF s[i] = "D" THEN "d"
                                 ELSE IF s[i] = "F" THEN "f"
                                 ELSE IF s[i] = "N" THEN "n"
                                 ELSE s[i]]

\* ------------------------------------------------------- optional values
NoneV == [kind |-> "None", val |-> <<>>]
Unbound == [kind |-> "Unbound", val |-> <<>>]
Str(s) == [kind |-> "Str", val |-> s]
\* Python truthiness of an Optional[str]
Truthy(v) == v.kind = "Str" /\ v.val # <<>>
\* len(text.strip()) of a bound string
StripLen(v) == Len(Strip(v.val))


\* ------------------------------------------------------------ environment
\* What the file system and the PDF libraries answer for one document.
NoFile == [exists |-> FALSE, suffix |-> <<>>, size |-> 0]
MkFile(sfx, sz) == [exists |-> TRUE, suffix |-> sfx, size |-> sz]
DotPdf == <<".", "p", "d", "f">>
DotPDF == <<".", "P", "D", "F">>
DotTxt == <<".", "t", "x", "t">>
SizeCap == MAX_PDF_SIZE_MB * BytesPerMB
Files ==
    { NoFile,
      MkFile(DotTxt, 1024),
      MkFile(DotPdf, SizeCap + 1),
      MkFile(DotPdf, 0),
      MkFile(DotPDF, 1024),
      MkFile(DotPdf, SizeCap) }

\* A page as pdfplumber shows it: extract_text() (may be None),
\* extract_tables() (tables of rows of cells; an empty cell stands for both
\* None and ""), and the concatenated text of page.chars.
MkPage(t, tb, ch) == [text |-> t, tables |-> tb, chars |-> ch]
Bar == <<" ", "|", " ">>
NL == <<"\n">>
StructuredPages ==
    { MkPage(NoneV, <<>>, <<>>),
      MkPage(Str(<<" ">>), << << <<X(1), <<>>, X(2)>>, <<X(1)>> >> >>, <<>>),
      MkPage(NoneV, << << <<X(60)>> >> >>, <<>>),
      MkPage(Str(<<>>), <<>>, X(3)),
      MkPage(Str(X(4)), <<>>, X(4)),
      MkPage(Str(X(5)), << << <<X(2)>> >> >>, <<>>),
      MkPage(Str(<<" ">> \o X(24)), <<>>, <<>>),
      MkPage(Str(X(25) \o <<" ">>), <<>>, <<>>),
      MkPage(Str(X(49)), <<>>, <<>>),
      MkPage(Str(X(50)), <<>>, <<>>),
      MkPage(Str(X(51)), <<>>, <<>>),
      MkPage(Str(X(3000)), <<>>, <<>>) }

\* A page as pypdf shows it: extract_text() or None.
PlainPages ==
    { NoneV, Str(<<" ">>), Str(X(4)), Str(X(5)), Str(X(49)), Str(X(50)),
      Str(X(51)) }

\* What pytesseract answers for one page image: a string or an exception.
RaisedV == [kind |-> "Raised", val |-> <<>>]
OcrPages ==
    { RaisedV, Str(<<>>), Str(<<"a", "b", "\n">>), Str(X(5)), Str(X(60)) }

SeqsUpTo(S, n) == UNION { [1..k -> S] : k \in 0..n }

\* A reader's view of the document: it fails on open/parse, or shows pages.
\* A zero-byte file is no PDF: every reader fails on it.
MkDoc(r, ps) == [raises |-> r, pages |-> ps]
DocsOf(f, PageSet) ==
    IF f.size = 0 THEN { MkDoc(TRUE, <<>>) }
    ELSE { MkDoc(TRUE, <<>>) } \cup { MkDoc(FALSE, ps) : ps \in SeqsUpTo(PageSet, MaxPages) }

\* ------------------------------------------- extract_text_with_table_detection
\* pdf_parser.py:95/109: the per-page floor under which tables and chars are
\* consulted.
PageFloor == 5

\* page.extract_text() or ""
RawPageText(p) == IF Truthy(p.text) THEN p.text.val ELSE <<>>

\* " | ".join([str(cell) for cell in row if cell])
RECURSIVE RowTexts(_)
RowTexts(rows) ==
    IF rows = <<>> THEN <<>>
    ELSE <<Join(Keep(Head(rows), {<<>>}), Bar)>> \o RowTexts(Tail(rows))

\* "\n".join(... for table in tables for row in table)
TableText(tables) == Join(RowTexts(Flatten(tables)), NL)

\* the page loop with the tables consulted on every page
StructuredPageText_AlwaysTables(p) ==
    LET t0 == RawPageText(p)
        t1 == IF p.tables # <<>>
              THEN t0 \o NL \o TableText(p.tables) ELSE t0
        t2 == IF Len(Strip(t1)) < PageFloor /\ p.chars # <<>>
              THEN t1 \o p.chars ELSE t1
    IN t2

\* steps 1-3 of the page loop: the text a page contributes to full_text
StructuredPageText(p) ==
    LET t0 == RawPageText(p)
        t1 == IF Len(Strip(t0)) < PageFloor /\ p.tables # <<>>
              THEN t0 \o NL \o TableText(p.tables) ELSE t0
        t2 == IF Len(Strip(t1)) < PageFloor /\ p.chars # <<>>
              THEN t1 \o p.chars ELSE t1
    IN t2

RECURSIVE MapPages(_, _)
MapPages(pages, k) ==
    IF pages = <<>> THEN <<>>
    ELSE << IF k = "structured" THEN StructuredPageText(Head(pages))
            ELSE RawPageText([text |-> Head(pages)]) >>
         \o MapPages(Tail(pages), k)

\* text_count: the sum of len(page_text.strip()) taken before tables and chars
RECURSIVE TextCount(_)
TextCount(pages) ==
    IF pages = <<>> THEN 0
    ELSE Len(Strip(RawPageText(Head(pages)))) + TextCount(Tail(pages))

\* The whole function: None when pdfplumber is not imported (NameError inside
\* the try) or the reader raises; otherwise the joined text, or None when
\* under the threshold and blank.
extract_text_with_table_detection(lib, doc) ==
    IF lib # "pdfplumber" \/ doc.raises THEN NoneV
    ELSE LET result_text == Join(MapPages(doc.pages, "structured"), NL)
         IN IF TextCount(doc.pages) < QualityThreshold
            THEN IF Strip(result_text) # <<>> THEN Str(result_text) ELSE NoneV
            ELSE Str(result_text)

\* ------------------------------------------------ extract_text_from_pdf_images
\* full_text: the pages pytesseract recognised; a page that raised is skipped
OcrFullText(pages) == MapPages(Keep(pages, {RaisedV}), "ocr")

\* the OCR strategy returning any non-empty result, blank or not
extract_text_from_pdf_images_Blank(pdf2image, ocr_available, doc) ==
    IF ~pdf2image \/ ~ocr_available \/ doc.raises THEN NoneV
    ELSE LET result_text == Join(OcrFullText(doc.pages), NL)
         IN IF result_text # <<>> THEN Str(result_text) ELSE NoneV

\* the OCR strategy with a page error caught by the outer except clause
extract_text_from_pdf_images_Abort(pdf2image, ocr_available, doc) ==
    IF ~pdf2image \/ ~ocr_available \/ doc.raises THEN NoneV
    ELSE IF \E i \in 1..Len(doc.pages) : doc.pages[i] = RaisedV THEN NoneV
    ELSE LET result_text == Join(OcrFullText(doc.pages), NL)
         IN IF Strip(result_text) # <<>> THEN Str(result_text) ELSE NoneV

extract_text_from_pdf_images(pdf2image, ocr_available, doc) ==
    IF ~pdf2image \/ ~ocr_available \/ doc.raises THEN NoneV
    ELSE LET result_text == Join(OcrFullText(doc.pages), NL)
         IN IF Strip(result_text) # <<>> THEN Str(result_text) ELSE NoneV

\* ------------------------------------------------------- validate_pdf_file
\* The error the function logs, "" when the file is valid.
ValidateError(f) ==
    IF ~f.exists THEN "FileNotFound"
    ELSE IF Lower(f.suffix) \notin VALID_EXTENSIONS THEN "BadExtension"
    ELSE IF f.size > MAX_PDF_SIZE_MB * BytesPerMB THEN "TooBig"
    ELSE "ok"

\* validation without the size check of lines 198-201
validate_pdf_file_NoSizeCheck(f) ==
    f.exists /\ Lower(f.suffix) \in VALID_EXTENSIONS

validate_pdf_file(f) == ValidateError(f) = "ok"

\* ------------------------------------------------------ extract_text_from_pdf
VARIABLES
    PDF_LIBRARY,    \* "pdfplumber", "pypdf" or "None", resolved at import
    OCR_AVAILABLE,  \* PIL and pytesseract were imported
    PDF2IMAGE,      \* pdf2image can be imported
    pc,             \* position of the call
    file,           \* the file behind file_path
    try_ocr,        \* the argument
    text,           \* the local variable text
    ret,            \* what the call returned, or Raised
    calls,          \* the strategies invoked so far and what each produced
    log,            \* the error and warning records written
    handles,        \* the file handles opened by the readers and still open
    etext,          \* data_extractor: the text handed to the extractor
    eop,            \* data_extractor: the function applied to etext, or "none"
    eout,           \* data_extractor: what that function returned
    patterns,       \* data_extractor: the REGEX_PATTERNS dict bound at import
    pdf_files,      \* main: the argument of process_all_pdfs_ai
    bidx,           \* main: the number of files the loop has processed
    stats,          \* main: the stats dict, or Raised when the loop aborted
    inv,            \* concurrent invocations: the local variables of each
    loggers         \* logger_cfg: the handlers of each named logger

avars == <<PDF_LIBRARY, OCR_AVAILABLE, PDF2IMAGE, pc, file, try_ocr, text, ret,
           calls, log, handles>>
evars == <<etext, eop, eout, patterns>>
bvars == <<pdf_files, bidx, stats, inv, loggers>>
vars == <<avars, evars, bvars>>

Pending == [kind |-> "Pending", val |-> <<>>]
Invoked(name, out) == [name |-> name, out |-> out]

\* line 232 / 250: if text and len(text.strip()) > 50: return text
AcceptText(t) == Truthy(t) /\ StripLen(t) > QualityThreshold

\* line 230: the structured attempt is made
UseStructured(lib) == lib = "pdfplumber" \/ lib = "None"

\* line 236: the plain attempt is made (text is read only when lib is None)
UsePlain(lib, t) == lib = "pypdf" \/ (lib = "None" /\ ~Truthy(t))

\* the threshold of line 256 taken inclusively
UnderThreshold_Inclusive(t) == ~Truthy(t) \/ StripLen(t) <= QualityThreshold

\* line 256, right operand: not text or len(text.strip()) < 50
UnderThreshold(t) == ~Truthy(t) \/ StripLen(t) < QualityThreshold

\* line 263 without the floor test
FinalFailure_NoFloor(t) == ~Truthy(t)

\* line 263 with the floor one character lower
FinalFailure_OffByOne(t) == ~Truthy(t) \/ StripLen(t) < LowFloor - 1

\* line 263: not text or len(text.strip()) < 5
FinalFailure(t) == ~Truthy(t) \/ StripLen(t) < LowFloor

\* line 259 with the floor test applied to the OCR text
AcceptOcr_Floor(t) == Truthy(t) /\ StripLen(t) >= LowFloor

\* line 259: if text: return text
AcceptOcr(t) == Truthy(t)

\* the earlier text kept when OCR yields none
AfterOcr_KeepEarlier(earlier, t) == IF Truthy(t) THEN t ELSE earlier

\* line 258: text = extract_text_from_pdf_images(file_path)
AfterOcr(earlier, t) == t

\* A failing reader fails while the file is opened or while it is parsed.
FailStages == {"open", "parse"}

\* The handle "with pdfplumber.open(file_path) as pdf" (line 86) holds once
\* the open succeeded; without pdfplumber the name lookup fails before it.
StructuredOpened(lib, doc, stage) ==
    IF lib = "pdfplumber" /\ ~(doc.raises /\ stage = "open")
    THEN {"pdfplumber.open"} ELSE {}

\* The handle "with open(file_path, 'rb') as file" (line 242) holds once the
\* open succeeded; without pypdf the import of line 239 fails before it.
PlainOpened(lib, doc, stage) ==
    IF lib # "None" /\ ~(doc.raises /\ stage = "open")
    THEN {"open"} ELSE {}

\* a block that closes its handle on the normal exit only
LeftOpen_NoWith(opened, raised) == IF raised THEN opened ELSE {}

\* The handles left open when a with-block is left: the context manager
\* closes its handle on the normal exit and on an exception alike.
LeftOpen(opened, raised) == {}

Init ==
    /\ PDF_LIBRARY \in {"pdfplumber", "pypdf", "None"}
    /\ OCR_AVAILABLE \in BOOLEAN
    /\ PDF2IMAGE \in BOOLEAN
    /\ pc = "idle"
    /\ file = NoFile
    /\ try_ocr = FALSE
    /\ text = Unbound
    /\ ret = Pending
    /\ calls = <<>>
    /\ log = <<>>
    /\ handles = {}
    /\ etext = <<>>
    /\ eop = "none"
    /\ eout = Pending
    /\ patterns = [k \in {} |-> k]
    /\ pdf_files = <<>>
    /\ bidx = 0
    /\ stats = Pending
    /\ inv = <<>>
    /\ loggers = <<>>

\* extract_text_from_pdf(file_path, try_ocr) is entered
Call ==
    /\ pc = "idle"
    /\ \E f \in Files, o \in BOOLEAN :
          /\ file' = f
          /\ try_ocr' = o
    /\ pc' = "validate"
    /\ text' = Unbound
    /\ ret' = Pending
    /\ calls' = <<>>
    /\ log' = <<>>
    /\ UNCHANGED <<PDF_LIBRARY, OCR_AVAILABLE, PDF2IMAGE, handles>>
    /\ UNCHANGED <<evars, bvars>>

\* lines 224-225
Validate ==
    /\ pc = "validate"
    /\ IF validate_pdf_file(file)
       THEN /\ pc' = "structured"
            /\ UNCHANGED <<ret, log>>
       ELSE /\ pc' = "done"
            /\ ret' = NoneV
            /\ log' = Append(log, ValidateError(file))
    /\ UNCHANGED <<PDF_LIBRARY, OCR_AVAILABLE, PDF2IMAGE, file, try_ocr, text,
                   calls, handles>>
    /\ UNCHANGED <<evars, bvars>>

\* lines 230-233
TryStructured ==
    /\ pc = "structured"
    /\ IF UseStructured(PDF_LIBRARY)
       THEN \E doc \in DocsOf(file, StructuredPages), stage \in FailStages :
               LET t == extract_text_with_table_detection(PDF_LIBRARY, doc)
               IN /\ text' = t
                  /\ calls' = Append(calls, Invoked("structured", t))
                  /\ handles' = handles \cup
                        LeftOpen(StructuredOpened(PDF_LIBRARY, doc, stage),
                                 doc.raises)
                  /\ IF AcceptText(t)
                     THEN pc' = "done" /\ ret' = t
                     ELSE pc' = "plain" /\ ret' = ret
       ELSE /\ pc' = "plain"
            /\ UNCHANGED <<text, calls, ret, handles>>
    /\ UNCHANGED <<PDF_LIBRARY, OCR_AVAILABLE, PDF2IMAGE, file, try_ocr, log>>
    /\ UNCHANGED <<evars, bvars>>

\* lines 236-253: the import of pypdf fails when no library was resolved, the
\* reader may raise; either way the except clause logs and text keeps its
\* earlier state
TryPlain ==
    /\ pc = "plain"
    /\ IF UsePlain(PDF_LIBRARY, text)
       THEN \E doc \in DocsOf(file, PlainPages), stage \in FailStages :
               IF PDF_LIBRARY = "None" \/ doc.raises
               THEN /\ log' = Append(log, "PyPDFError")
                    /\ calls' = Append(calls, Invoked("plain", RaisedV))
                    /\ pc' = "ocr"
                    /\ handles' = handles \cup
                          LeftOpen(PlainOpened(PDF_LIBRARY, doc, stage), TRUE)
                    /\ UNCHANGED <<text, ret>>
               ELSE LET t == Str(Join(MapPages(doc.pages, "plain"), NL))
                    IN /\ text' = t
                       /\ calls' = Append(calls, Invoked("plain", t))
                       /\ log' = log
                       /\ handles' = handles \cup
                             LeftOpen(PlainOpened(PDF_LIBRARY, doc, stage), FALSE)
                       /\ IF AcceptText(t)
                          THEN pc' = "done" /\ ret' = t
                          ELSE pc' = "ocr" /\ ret' = ret
       ELSE /\ pc' = "ocr"
            /\ UNCHANGED <<text, calls, ret, log, handles>>
    /\ UNCHANGED <<PDF_LIBRARY, OCR_AVAILABLE, PDF2IMAGE, file, try_ocr>>
    /\ UNCHANGED <<evars, bvars>>

\* lines 256-260: reading the unassigned local raises UnboundLocalError
TryOCR ==
    /\ pc = "ocr"
    /\ IF ~try_ocr
       THEN /\ pc' = "final"
            /\ UNCHANGED <<text, calls, ret, log>>
       ELSE IF text = Unbound
       THEN /\ pc' = "done"
            /\ ret' = RaisedV
            /\ log' = Append(log, "UnboundLocalError")
            /\ UNCHANGED <<text, calls>>
       ELSE IF UnderThreshold(text)
       THEN \E doc \in DocsOf(file, OcrPages) :
               LET t == extract_text_from_pdf_images(PDF2IMAGE, OCR_AVAILABLE, doc)
               IN /\ text' = AfterOcr(text, t)
                  /\ calls' = Append(calls, Invoked("ocr", t))
                  /\ log' = Append(log, "TryingOCR")
                  /\ IF AcceptOcr(t)
                     THEN pc' = "done" /\ ret' = t
                     ELSE pc' = "final" /\ ret' = ret
       ELSE /\ pc' = "final"
            /\ UNCHANGED <<text, calls, ret, log>>
    /\ UNCHANGED <<PDF_LIBRARY, OCR_AVAILABLE, PDF2IMAGE, file, try_ocr, handles>>
    /\ UNCHANGED <<evars, bvars>>

\* lines 263-276
Finish ==
    /\ pc = "final"
    /\ pc' = "done"
    /\ IF text = Unbound
       THEN ret' = RaisedV /\ log' = Append(log, "UnboundLocalError")
       ELSE IF FinalFailure(text)
       THEN ret' = NoneV /\ log' = Append(log, "ExtractFailed")
       ELSE ret' = text /\ log' = log
    /\ UNCHANGED <<PDF_LIBRARY, OCR_AVAILABLE, PDF2IMAGE, file, try_ocr, text,
                   calls, handles>>
    /\ UNCHANGED <<evars, bvars>>

\* the caller takes the result; the next call may start
Return ==
    /\ pc = "done"
    /\ pc' = "idle"
    /\ file' = NoFile
    /\ try_ocr' = FALSE
    /\ text' = Unbound
    /\ ret' = Pending
    /\ calls' = <<>>
    /\ log' = <<>>
    /\ UNCHANGED <<PDF_LIBRARY, OCR_AVAILABLE, PDF2IMAGE, handles>>
    /\ UNCHANGED <<evars, bvars>>

Next ==
    \/ Call
    \/ Validate
    \/ TryStructured
    \/ TryPlain
    \/ TryOCR
    \/ Finish
    \/ Return

Spec == Init /\ [][Next]_vars

\* ---------------------------------------------------------- data_extractor
\* Largest number of segments of a free-form text handed to the extractor.
MaxSegs == 2

\* The Pattern Registry (settings.REGEX_PATTERNS; settings.py is not part of
\* the sources).  A text is a sequence of segments in document order; a
\* segment is prose, or a labelled passage with its capture groups.  The rule
\* stored under a key matches the passages labelled with that key, and
\* re.search returns the first of them.
PatternKeys ==
    { "cadastral_number", "area", "address", "owner", "permitted_use",
      "cadastral_cost", "land_category", "rent_type", "rental_period",
      "tenant" }
REGEX_PATTERNS == [k \in PatternKeys |-> k]

Seg(l, gs) == [label |-> l, groups |-> gs]
Prose == Seg("prose", <<>>)
Date1 == <<"0", "2", ".", "0", "9", ".", "2", "0", "2", "5">>
Date2 == <<"3", "1", ".", "1", "2", ".", "2", "0", "4", "0">>
Captures ==
    { X(1), <<" ", "x", " ", " ", "y", "\n">>, <<"-">>, <<" ">> }
Segments ==
    { Prose, Seg("rental_period", <<Date1, Date2>>),
      Seg("rental_period", <<Date2, Date1>>) }
    \cup { Seg(l, <<c>>) : l \in PatternKeys \ {"rental_period"}, c \in Captures }

\* The passage a whole registry extract holds for a key.
DefaultSeg(l) ==
    IF l = "rental_period" THEN Seg(l, <<Date1, Date2>>) ELSE Seg(l, <<X(1)>>)
KeyOrder ==
    << "cadastral_number", "address", "area", "owner", "permitted_use",
       "cadastral_cost", "land_category", "rent_type", "rental_period",
       "tenant" >>
RECURSIVE DocOf(_, _)
DocOf(S, i) ==
    IF i > Len(KeyOrder) THEN <<>>
    ELSE (IF KeyOrder[i] \in S THEN <<DefaultSeg(KeyOrder[i])>> ELSE <<>>)
         \o DocOf(S, i + 1)
\* Inputs: every short text, and every extract holding a subset of the keys.
Texts ==
    SeqsUpTo(Segments, MaxSegs) \cup { DocOf(S, 1) : S \in SUBSET PatternKeys }

\* a search that returns the last match of the text
search_LastMatch(pattern, t) ==
    IF \E i \in 1..Len(t) : t[i].label = pattern
    THEN CHOOSE i \in 1..Len(t) :
            /\ t[i].label = pattern
            /\ \A j \in (i + 1)..Len(t) : t[j].label # pattern
    ELSE 0

\* re.search(pattern, text): the index of the first match, 0 for no match
search(pattern, t) ==
    IF \E i \in 1..Len(t) : t[i].label = pattern
    THEN CHOOSE i \in 1..Len(t) :
            /\ t[i].label = pattern
            /\ \A j \in 1..(i - 1) : t[j].label # pattern
    ELSE 0
\* match.group(n)
group(t, m, n) == t[m].groups[n]

\* re.sub(r'\s+', ' ', text)
RECURSIVE CollapseWS(_)
CollapseWS(s) ==
    IF s = <<>> THEN <<>>
    ELSE IF Head(s) \in WS
         THEN <<" ">> \o CollapseWS(SubSeq(s, LeadWS(s) + 1, Len(s)))
         ELSE <<Head(s)>> \o CollapseWS(Tail(s))

\* clean_text without the .strip() of line 49
clean_text_NoStrip(s) == CollapseWS(s)

\* clean_text, on a string (the falsy inputs give "")
clean_text(s) == IF s = <<>> THEN <<>> ELSE CollapseWS(Strip(s))

\* REGEX_PATTERNS.get(key): the rule, or "None" when the dict has no such key
Get(key) == IF key \in DOMAIN patterns THEN patterns[key] ELSE "None"

\* the single-pattern extractors: they differ in the key and in how the
\* capture is post-processed (as is, .strip(), clean_text); re.search with
\* None for a pattern raises TypeError
ExtractOne(key, t, post) ==
    IF t = <<>> THEN NoneV
    ELSE IF Get(key) = "None" THEN RaisedV
    ELSE LET m == search(Get(key), t)
         IN IF m = 0 THEN NoneV
            ELSE LET g == group(t, m, 1)
                 IN Str(IF post = "raw" THEN g
                        ELSE IF post = "strip" THEN Strip(g)
                        ELSE clean_text(g))

extract_cadastral_number(t) == ExtractOne("cadastral_number", t, "raw")
\* extract_area asking the registry for a key it does not hold
extract_area_WrongKey(t) == ExtractOne("area_m2", t, "strip")

\* extract_area with the capture passed through clean_text
extract_area_Clean(t) == ExtractOne("area", t, "clean")

extract_area(t) == ExtractOne("area", t, "strip")
extract_address(t) == ExtractOne("address", t, "clean")
extract_owner(t) == ExtractOne("owner", t, "clean")
extract_permitted_use(t) == ExtractOne("permitted_use", t, "clean")
extract_cadastral_cost(t) == ExtractOne("cadastral_cost", t, "clean")
extract_land_category(t) == ExtractOne("land_category", t, "clean")

\* A dict is a function from its keys; as a value it is tagged "Dict".
Dict(d) == [kind |-> "Dict", val |-> d]

\* rental_data after the three lookups of extract_rental_info
RentalDict(t) ==
    LET m1 == search(Get("rent_type"), t)
        m2 == search(Get("rental_period"), t)
        m3 == search(Get("tenant"), t)
        keys == (IF m1 # 0 THEN {"rent_type"} ELSE {})
                \cup (IF m2 # 0 THEN {"period_start", "period_end"} ELSE {})
                \cup (IF m3 # 0 THEN {"tenant"} ELSE {})
    IN [k \in keys |->
          IF k = "rent_type" THEN clean_text(group(t, m1, 1))
          ELSE IF k = "period_start" THEN group(t, m2, 1)
          ELSE IF k = "period_end" THEN group(t, m2, 2)
          ELSE clean_text(group(t, m3, 1))]

\* extract_rental_info returning rental_data even when it is empty
extract_rental_info_Always(t) ==
    IF t = <<>> THEN NoneV
    ELSE IF "None" \in {Get("rent_type"), Get("rental_period"), Get("tenant")}
    THEN RaisedV
    ELSE Dict(RentalDict(t))

\* return rental_data if rental_data else None
extract_rental_info(t) ==
    IF t = <<>> THEN NoneV
    ELSE IF "None" \in {Get("rent_type"), Get("rental_period"), Get("tenant")}
    THEN RaisedV
    ELSE IF DOMAIN RentalDict(t) # {} THEN Dict(RentalDict(t)) ELSE NoneV

FieldValue(k, t) ==
    IF k = "cadastral_number" THEN extract_cadastral_number(t)
    ELSE IF k = "address" THEN extract_address(t)
    ELSE IF k = "area" THEN extract_area(t)
    ELSE IF k = "owner" THEN extract_owner(t)
    ELSE IF k = "permitted_use" THEN extract_permitted_use(t)
    ELSE IF k = "cadastral_cost" THEN extract_cadastral_cost(t)
    ELSE IF k = "land_category" THEN extract_land_category(t)
    ELSE extract_rental_info(t)

\* the keys of the dict literal of extract_all_data
DataKeys ==
    { "cadastral_number", "address", "area", "owner", "permitted_use",
      "cadastral_cost", "land_category", "rental_data" }

\* extract_all_data keeping only the keys whose field was found
extract_all_data_Sparse(t) ==
    IF \E k \in DataKeys : FieldValue(k, t) = RaisedV THEN RaisedV
    ELSE Dict([k \in { x \in DataKeys : FieldValue(x, t) # NoneV } |-> FieldValue(k, t)])

\* an exception of an extractor call leaves extract_all_data as it is
extract_all_data(t) ==
    IF \E k \in DataKeys : FieldValue(k, t) = RaisedV THEN RaisedV
    ELSE Dict([k \in DataKeys |-> FieldValue(k, t)])

\* The acquisition chain at rest while the extractor runs.
AcqAtRest ==
    /\ PDF_LIBRARY = "pdfplumber"
    /\ OCR_AVAILABLE = FALSE
    /\ PDF2IMAGE = FALSE
    /\ pc = "idle"
    /\ file = NoFile
    /\ try_ocr = FALSE
    /\ text = Unbound
    /\ ret = Pending
    /\ calls = <<>>
    /\ log = <<>>
    /\ handles = {}

\* No batch of process_all_pdfs_ai in progress.
BatchAtRest ==
    /\ pdf_files = <<>>
    /\ bidx = 0
    /\ stats = Pending
    /\ inv = <<>>
    /\ loggers = <<>>

InitExtract ==
    /\ AcqAtRest
    /\ BatchAtRest
    /\ patterns = REGEX_PATTERNS
    /\ etext \in Texts
    /\ eop = "none"
    /\ eout = Pending

ExtractAllData ==
    /\ eop = "none"
    /\ eop' = "extract_all_data"
    /\ eout' = extract_all_data(etext)
    /\ UNCHANGED <<etext, patterns, avars, bvars>>

ExtractRentalInfo ==
    /\ eop = "none"
    /\ eop' = "extract_rental_info"
    /\ eout' = extract_rental_info(etext)
    /\ UNCHANGED <<etext, patterns, avars, bvars>>


\* ------------------------------------------------------------ table_builder
\* Column titles and the literal pieces of the f-strings are written in
\* Latin letters for the Cyrillic of the source.
ColNumber == "N p/p"
ColSource == "PDF-istochnik"
ColCadastral == "Kadastr. nomer ZU"
ColAddress == "Adres, kompleks"
ColArea == "Ploshchad (m2)"
ColOwner == "Sobstvennik"
ColUse == "Predpolagaemoe naznachenie"
ColEncumbrance == "Obremenenie (arenda)"
ColTenant == "Arendator"
ColNotes == "Primechaniya i raskhozhdeniya"

\* settings.EXCEL_COLUMNS: the columns table_builder writes to
EXCEL_COLUMNS ==
    { ColNumber, ColSource, ColCadastral, ColAddress, ColArea, ColOwner,
      ColUse, ColEncumbrance, ColTenant, ColNotes }

TypePrefix == <<"T", "i", "p", ":", " ">>
PeriodPrefix == <<"P", "e", "r", "i", "o", "d", ":", " ">>
PeriodDash == <<" ", "-", " ">>
PartsSep == <<";", " ">>

FileNames == { <<"a", ".", "p", "d", "f">>, <<"b", ".", "p", "d", "f">> }
RowNumbers == {1, 2}

\* row[col] = value, on a dict
Put(row, col, value) == [c \in DOMAIN row \cup {col} |->
                           IF c = col THEN value ELSE row[c]]

\* rental.get(key), None read as the empty string: both are falsy
RentalGet(rental, key) == IF key \in DOMAIN rental THEN rental[key] ELSE <<>>

\* data.get(key)
DataGet(data, key) == IF key \in DOMAIN data THEN data[key] ELSE NoneV

\* the parts of the encumbrance text, lines 90-97
RentalInfoParts(rental) ==
    (IF RentalGet(rental, "rent_type") # <<>>
     THEN << TypePrefix \o rental["rent_type"] >> ELSE <<>>)
    \o (IF RentalGet(rental, "period_start") # <<>>
           /\ RentalGet(rental, "period_end") # <<>>
        THEN << PeriodPrefix \o rental["period_start"] \o PeriodDash
                \o rental["period_end"] >>
        ELSE <<>>)

\* the five fields that have a column of their own, lines 72-85
FieldColumn ==
    [k \in {"cadastral_number", "address", "area", "owner", "permitted_use"} |->
        IF k = "cadastral_number" THEN ColCadastral
        ELSE IF k = "address" THEN ColAddress
        ELSE IF k = "area" THEN ColArea
        ELSE IF k = "owner" THEN ColOwner
        ELSE ColUse]

BlankRow == [c \in EXCEL_COLUMNS |-> <<>>]

\* the row after lines 66-85, the fields in Mapped written to their columns
RowOfFields(data, file_name, row_number, Mapped) ==
    [c \in EXCEL_COLUMNS |->
        IF c = ColNumber THEN row_number
        ELSE IF c = ColSource THEN file_name
        ELSE IF \E k \in Mapped : FieldColumn[k] = c /\ Truthy(DataGet(data, k))
        THEN data[(CHOOSE k \in Mapped : FieldColumn[k] = c)].val
        ELSE <<>>]

\* lines 88-103
WithRental(row, data) ==
    IF DataGet(data, "rental_data").kind # "Dict" THEN row
    ELSE LET rental == data["rental_data"].val
             parts == RentalInfoParts(rental)
             r1 == IF parts # <<>>
                   THEN Put(row, ColEncumbrance, Join(parts, PartsSep))
                   ELSE row
         IN IF RentalGet(rental, "tenant") # <<>>
            THEN Put(r1, ColTenant, rental["tenant"])
            ELSE r1

\* create_row_from_extracted_data that leaves the owner out
create_row_from_extracted_data_NoOwner(data, file_name, row_number) ==
    WithRental(RowOfFields(data, file_name, row_number,
                           DOMAIN FieldColumn \ {"owner"}), data)

create_row_from_extracted_data(data, file_name, row_number) ==
    WithRental(RowOfFields(data, file_name, row_number, DOMAIN FieldColumn),
               data)

Row(r) == [kind |-> "Row", val |-> r]

\* table_builder on the record extract_all_data returned
CreateRow ==
    /\ eop = "extract_all_data"
    /\ eout.kind = "Dict"
    /\ \E file_name \in FileNames, row_number \in RowNumbers :
          eout' = Row(create_row_from_extracted_data(eout.val, file_name,
                                                     row_number))
    /\ eop' = "create_row"
    /\ UNCHANGED <<etext, patterns, avars, bvars>>

NextExtract ==
    \/ ExtractAllData
    \/ ExtractRentalInfo
    \/ CreateRow

SpecExtract == InitExtract /\ [][NextExtract]_vars

\* ------------------------------------------- the driver of data_extractor
\* The __main__ block: extract_text_from_pdf(test_pdf) on a file that exists,
\* try_ocr left at its default, then extract_all_data when the text is truthy.
InitDriver ==
    /\ PDF_LIBRARY \in {"pdfplumber", "pypdf", "None"}
    /\ OCR_AVAILABLE \in BOOLEAN
    /\ PDF2IMAGE \in BOOLEAN
    /\ pc = "idle"
    /\ file = NoFile
    /\ try_ocr = FALSE
    /\ text = Unbound
    /\ ret = Pending
    /\ calls = <<>>
    /\ log = <<>>
    /\ handles = {}
    /\ BatchAtRest
    /\ patterns = REGEX_PATTERNS
    /\ etext = <<>>
    /\ eop = "none"
    /\ eout = Pending

\* lines 376-382
MainRead ==
    /\ pc = "idle"
    /\ eop = "none"
    /\ \E f \in { g \in Files : g.exists } : file' = f
    /\ try_ocr' = FALSE
    /\ pc' = "validate"
    /\ text' = Unbound
    /\ ret' = Pending
    /\ calls' = <<>>
    /\ log' = <<>>
    /\ UNCHANGED <<PDF_LIBRARY, OCR_AVAILABLE, PDF2IMAGE, handles>>
    /\ UNCHANGED <<evars, bvars>>

\* The acquired text as the extractor reads it: the texts of the readers
\* hold no passage any rule matches.
AsPassages(s) == IF s = <<>> THEN <<>> ELSE <<Prose>>

\* lines 384-404: an exception of extract_text_from_pdf ends the driver
MainParse ==
    /\ pc = "done"
    /\ eop = "none"
    /\ IF ret = RaisedV
       THEN /\ eop' = "raised"
            /\ eout' = RaisedV
            /\ etext' = etext
       ELSE IF Truthy(ret)
       THEN /\ eop' = "extract_all_data"
            /\ etext' = AsPassages(ret.val)
            /\ eout' = extract_all_data(AsPassages(ret.val))
       ELSE /\ eop' = "failed"
            /\ eout' = NoneV
            /\ etext' = etext
    /\ UNCHANGED <<patterns, avars, bvars>>

NextDriver ==
    \/ MainRead
    \/ Validate
    \/ TryStructured
    \/ TryPlain
    \/ TryOCR
    \/ Finish
    \/ MainParse

SpecDriver == InitDriver /\ [][NextDriver]_vars

\* --------------------------------------------------------- the batch of main
MaxFiles == 3

\* f"{file_name} [ОШИБКА]" and f"Ошибка парсинга: {error_message}"
ErrorTag ==
    << " ", "[", "O", "S", "H", "I", "B", "K", "A", "]" >>
ErrorPrefix ==
    << "O", "s", "h", "i", "b", "k", "a", " ", "p", "a", "r", "s", "i",
       "n", "g", "a", ":", " " >>
\* "AI API не вернул данные"
NoDataMessage ==
    << "A", "I", " ", "A", "P", "I", " ", "n", "e", " ", "v", "e", "r",
       "n", "u", "l", " ", "d", "a", "n", "n", "y", "e" >>
\* str(e) of the AttributeError raised by .get on a list or on a str
AttributeErrorMessage ==
    << "o", "b", "j", "e", "c", "t", " ", "h", "a", "s", " ", "n", "o",
       " ", "a", "t", "t", "r", "i", "b", "u", "t", "e", " ", "'", "g",
       "e", "t", "'" >>

create_error_row(file_name, error_message, row_number) ==
    Put(Put(Put(BlankRow, ColNumber, row_number),
            ColSource, file_name \o ErrorTag),
        ColNotes, ErrorPrefix \o error_message)

\* What query_deepseek_ocr returns for a file: None (any failure on the way is
\* caught, lines 303-305), or the parsed JSON of the model's answer, which is
\* a dict (possibly empty, possibly with a string under rental_data) or a list.
ListAnswer == [kind |-> "List", val |-> <<>>]
Answers ==
    { NoneV,
      Dict([k \in {} |-> NoneV]),
      Dict([k \in {"owner", "cadastral_cost"} |-> Str(X(1))]),
      Dict([k \in {"owner", "rental_data"} |->
              IF k = "owner" THEN NoneV
              ELSE Dict([j \in {"tenant"} |-> X(1)])]),
      Dict([k \in {"rental_data"} |-> Str(X(1))]),
      ListAnswer }

PdfFiles == [name : FileNames, answer : Answers]

query_deepseek_ocr(pdf_path) == pdf_path.answer

\* "if not data": None, {} and [] are falsy
TruthyData(data) ==
    \/ data.kind = "List"
    \/ data.kind = "Dict" /\ DOMAIN data.val # {}

\* create_row_from_extracted_data raises AttributeError when data has no
\* .get (line 73) or when a truthy rental_data has none (line 95)
create_row_raises(data) ==
    \/ data.kind # "Dict"
    \/ data.kind = "Dict" /\ DataGet(data.val, "rental_data").kind = "Str"
       /\ Truthy(DataGet(data.val, "rental_data"))

Outcome(success, row) == [kind |-> "Tuple", success |-> success, row |-> row]

\* process_single_pdf_with_ai without the except clause of lines 334-337
process_single_pdf_with_ai_NoCatch(pdf_path, row_number) ==
    LET data == query_deepseek_ocr(pdf_path)
    IN IF ~TruthyData(data)
       THEN Outcome(FALSE, create_error_row(pdf_path.name, NoDataMessage,
                                            row_number))
       ELSE IF create_row_raises(data)
       THEN [kind |-> "Raised", success |-> FALSE, row |-> BlankRow]
       ELSE Outcome(TRUE, create_row_from_extracted_data(data.val, pdf_path.name,
                                                         row_number))

process_single_pdf_with_ai(pdf_path, row_number) ==
    LET data == query_deepseek_ocr(pdf_path)
    IN IF ~TruthyData(data)
       THEN Outcome(FALSE, create_error_row(pdf_path.name, NoDataMessage,
                                            row_number))
       ELSE IF create_row_raises(data)
       THEN Outcome(FALSE, create_error_row(pdf_path.name, AttributeErrorMessage,
                                            row_number))
       ELSE Outcome(TRUE, create_row_from_extracted_data(data.val, pdf_path.name,
                                                         row_number))

InitBatch ==
    /\ AcqAtRest
    /\ patterns = REGEX_PATTERNS
    /\ etext = <<>>
    /\ eop = "none"
    /\ eout = Pending
    /\ pdf_files \in SeqsUpTo(PdfFiles, MaxFiles)
    /\ bidx = 0
    /\ stats = Pending
    /\ inv = <<>>
    /\ loggers = <<>>

\* lines 360-368: the stats dict before the loop
ProcessAllEnter ==
    /\ stats = Pending
    /\ stats' = [kind |-> "Running",
                 val |-> [total_files |-> Len(pdf_files), successful |-> 0,
                          failed |-> 0, rows |-> <<>>]]
    /\ UNCHANGED <<pdf_files, bidx, inv, loggers, avars, evars>>

\* a loop that collects the rows of the successful documents only
Collect_SkipFailed(st, r) ==
    IF r.success
    THEN [st EXCEPT !.val.rows = Append(@, r.row), !.val.successful = @ + 1]
    ELSE [st EXCEPT !.val.failed = @ + 1]

\* lines 373-378: the row is appended, then one of the two counters grows
Collect(st, r) ==
    [st EXCEPT
       !.val.rows = Append(@, r.row),
       !.val.successful = IF r.success THEN @ + 1 ELSE @,
       !.val.failed = IF r.success THEN @ ELSE @ + 1]

\* lines 370-381: one turn of the loop; an exception leaving
\* process_single_pdf_with_ai would leave process_all_pdfs_ai too
ProcessNext ==
    /\ stats.kind = "Running"
    /\ bidx < Len(pdf_files)
    /\ LET idx == bidx + 1
           r == process_single_pdf_with_ai(pdf_files[idx], idx)
       IN /\ bidx' = idx
          /\ stats' =
                IF r.kind = "Raised" THEN RaisedV
                ELSE Collect(stats, r)
    /\ UNCHANGED <<pdf_files, inv, loggers, avars, evars>>

\* lines 383-385
ProcessAllReturn ==
    /\ stats.kind = "Running"
    /\ bidx = Len(pdf_files)
    /\ stats' = [stats EXCEPT !.kind = "Returned"]
    /\ UNCHANGED <<pdf_files, bidx, inv, loggers, avars, evars>>

NextBatch ==
    \/ ProcessAllEnter
    \/ ProcessNext
    \/ ProcessAllReturn

SpecBatch == InitBatch /\ [][NextBatch]_vars

\* ------------------------------------------------ normalize_with_patterns
\* The model's answer after json.loads, and the pattern table handed to
\* normalize_with_patterns.  A pattern is modelled by the class of characters
\* it accepts: it matches the first maximal run of such characters, which is
\* match.group(0).  The empty string is a pattern that "if pat" rejects.
ClassOf(pat) == IF pat = "date" THEN {"1", "."} ELSE {"1", ":"}

FirstIn(pat, s) ==
    IF \E i \in 1..Len(s) : s[i] \in ClassOf(pat)
    THEN CHOOSE i \in 1..Len(s) :
            /\ s[i] \in ClassOf(pat)
            /\ \A j \in 1..(i - 1) : s[j] \notin ClassOf(pat)
    ELSE 0

RunEnd(pat, s, i) ==
    CHOOSE j \in i..Len(s) :
       /\ \A k \in i..j : s[k] \in ClassOf(pat)
       /\ j = Len(s) \/ s[j + 1] \notin ClassOf(pat)

\* m = re.search(pat, value); m.group(0)
group0(pat, s) == SubSeq(s, FirstIn(pat, s), RunEnd(pat, s, FirstIn(pat, s)))

PatternsGet(pats, key) == IF key \in DOMAIN pats THEN pats[key] ELSE ""

\* a normalisation that blanks the values its pattern does not match
NormField_NoneOnMiss(d, key, pat) ==
    IF key \in DOMAIN d /\ d[key].kind = "Str" /\ d[key].val # <<>> /\ pat # ""
    THEN IF FirstIn(pat, d[key].val) # 0
         THEN [d EXCEPT ![key] = Str(group0(pat, @.val))]
         ELSE [d EXCEPT ![key] = NoneV]
    ELSE d

\* lines 164-170 (and 173-179, 182-188, 196-199): one field of one mapping
NormField(d, key, pat) ==
    IF /\ key \in DOMAIN d
       /\ d[key].kind = "Str"
       /\ d[key].val # <<>>
       /\ pat # ""
       /\ FirstIn(pat, d[key].val) # 0
    THEN [d EXCEPT ![key] = Str(group0(pat, @.val))]
    ELSE d

\* lines 191-199: the dates inside rental_data
NormRental(d, pats) ==
    IF "rental_data" \in DOMAIN d /\ d["rental_data"].kind = "Dict"
    THEN LET date_pat == PatternsGet(pats, "date")
             r0 == d["rental_data"].val
             r1 == NormField(r0, "period_start", date_pat)
             r2 == NormField(r1, "period_end", date_pat)
         IN [d EXCEPT !["rental_data"] = Dict(r2)]
    ELSE d

\* lines 155-201
normalize_with_patterns(data, pats) ==
    IF data.kind # "Dict" THEN data
    ELSE LET d1 == NormField(data.val, "cadastral_number",
                             PatternsGet(pats, "cadastral_number"))
             d2 == NormField(d1, "area", PatternsGet(pats, "area"))
             d3 == NormField(d2, "cadastral_cost",
                             PatternsGet(pats, "cadastral_cost"))
         IN Dict(NormRental(d3, pats))

Absent == [kind |-> "Absent", val |-> <<>>]
Number == [kind |-> "Num", val |-> <<>>]

\* the mapping holding the keys whose value is not Absent
Present(all) == [k \in {j \in DOMAIN all : all[j] # Absent} |-> all[k]]

RentalAnswers ==
    { Absent, NoneV, Str(<<"1", ".", "1">>) }
    \cup { Dict(Present([period_start |-> s, period_end |-> e, tenant |-> t])) :
             s \in {Absent, Str(<<"x", "1", ".", "1", "x">>), Str(<<"x">>)},
             e \in {Absent, Str(<<"1", ".">>), NoneV},
             t \in {Absent, Str(<<"1", ".">>)} }

NormAnswers ==
    { Dict(Present([cadastral_number |-> c, area |-> a, cadastral_cost |-> k,
                    owner |-> o, rental_data |-> r])) :
        c \in {Absent, Str(<<"x", "1", ":", "1", "x", "1">>), Str(<<"x">>), NoneV},
        a \in {Absent, Str(<<"1", "x">>), Str(<<>>)},
        k \in {Absent, Str(<<"1", ":">>), Number},
        o \in {Absent, Str(<<"x", "1", ":">>)},
        r \in RentalAnswers }
    \cup { ListAnswer, NoneV }

NormKeys == {"cadastral_number", "area", "cadastral_cost", "date"}

PatternTables ==
    { [k \in S |-> k] : S \in SUBSET NormKeys }
    \cup { [k \in NormKeys |-> ""] }

InitNormalize ==
    /\ AcqAtRest
    /\ BatchAtRest
    /\ patterns \in PatternTables
    /\ etext \in NormAnswers
    /\ eop = "parsed"
    /\ eout = Pending

\* line 296: normalized = normalize_with_patterns(parsed, REGEX_PATTERNS);
\* etext keeps the answer as it was before the call
Normalize ==
    /\ eop = "parsed"
    /\ eop' = "normalize_with_patterns"
    /\ eout' = normalize_with_patterns(etext, patterns)
    /\ UNCHANGED <<etext, patterns, avars, bvars>>

NextNormalize == Normalize

SpecNormalize == InitNormalize /\ [][NextNormalize]_vars

\* ------------------------------------------------------------ setup_logger
\* loggers maps a logger name to its handlers and to the number of
\* setup_logger calls for it that returned.  logging.getLogger keeps one
\* logger object per name, so a logger is identified by its name.  A handler
\* records its type and the ordinal of the call that added it.  The root
\* logger is never set up by this program; another part of the process may
\* have configured it.
MaxSetups == 3

ModuleLoggers == {"main", "src", "src.pdf_parser"}

\* logging's hierarchy: the dotted prefix, else the root logger
Parent(name) == IF name = "src.pdf_parser" THEN "src" ELSE "root"

Handler(type, call) == [type |-> type, call |-> call]

\* Logger.hasHandlers: this logger's handlers or, since propagate is never
\* switched off, those of an ancestor
RECURSIVE hasHandlers(_, _)
hasHandlers(regs, name) ==
    \/ regs[name].handlers # <<>>
    \/ name # "root" /\ hasHandlers(regs, Parent(name))

\* a set-up without the test of line 48: every call adds its handlers
setup_logger_NoGuard(regs, name, file_fails) ==
    IF file_fails THEN [regs |-> regs, out |-> RaisedV]
    ELSE [regs |-> [regs EXCEPT
                      ![name].setups = @ + 1,
                      ![name].handlers =
                          @ \o <<Handler("RotatingFileHandler", regs[name].setups + 1),
                                 Handler("StreamHandler", regs[name].setups + 1)>>],
          out |-> Str(name)]

\* lines 44-93; file_fails: the log directory or the log file cannot be
\* created (lines 52, 64), which raises before any handler is added
setup_logger(regs, name, file_fails) ==
    IF hasHandlers(regs, name)
    THEN [regs |-> [regs EXCEPT ![name].setups = @ + 1], out |-> Str(name)]
    ELSE IF file_fails THEN [regs |-> regs, out |-> RaisedV]
    ELSE [regs |-> [regs EXCEPT
                      ![name].setups = @ + 1,
                      ![name].handlers =
                          @ \o <<Handler("RotatingFileHandler", regs[name].setups + 1),
                                 Handler("StreamHandler", regs[name].setups + 1)>>],
          out |-> Str(name)]

InitLogger ==
    /\ AcqAtRest
    /\ pdf_files = <<>>
    /\ bidx = 0
    /\ stats = Pending
    /\ inv = <<>>
    /\ patterns = [k \in {} |-> k]
    /\ etext = <<>>
    /\ eop = "idle"
    /\ eout = Pending
    /\ \E foreign \in {<<>>, <<Handler("foreign", 0)>>} :
          loggers = [n \in ModuleLoggers \cup {"root"} |->
                       [handlers |-> IF n = "root" THEN foreign ELSE <<>>,
                        setups |-> 0]]

SetupLogger ==
    \E name \in ModuleLoggers, file_fails \in BOOLEAN :
       /\ loggers[name].setups < MaxSetups
       /\ LET r == setup_logger(loggers, name, file_fails)
          IN /\ loggers' = r.regs
             /\ eout' = r.out
       /\ eop' = "setup_logger"
       /\ UNCHANGED <<etext, patterns, pdf_files, bidx, stats, inv, avars>>

NextLogger == SetupLogger

SpecLogger == InitLogger /\ [][NextLogger]_vars

\* ------------------------------------------------ interleaved invocations
\* Two invocations run interleaved, each either extract_text_from_pdf on its
\* own document or extract_all_data on its own text.  inv maps an invocation
\* to its frame: the arguments (file, try_ocr, etext), what the libraries
\* answer for its document (sdoc, pdoc, odoc), its local variables (text,
\* data, k = number of fields extracted), its position pc and its result ret.
\* The module globals PDF_LIBRARY, OCR_AVAILABLE and patterns are read by
\* both; the loggers are shared too, and log holds the lines written, as the
\* set of (invocation, position, written while another invocation was
\* running) tuples.
Invocations == {1, 2}

DataOrder ==
    << "cadastral_number", "address", "area", "owner", "permitted_use",
       "cadastral_cost", "land_category", "rental_data" >>

Frame(kind, f, o, sd, pd, od, t) ==
    [kind |-> kind, pc |-> IF kind = "acquire" THEN "validate" ELSE "extract",
     file |-> f, try_ocr |-> o, sdoc |-> sd, pdoc |-> pd, odoc |-> od,
     etext |-> t, text |-> Unbound, data |-> [k \in DataKeys |-> NoneV],
     k |-> 0, ret |-> Pending]

NoDoc == MkDoc(TRUE, <<>>)

AcquireFrames ==
    { Frame("acquire", MkFile(DotPdf, 1024), TRUE,
            MkDoc(FALSE, <<MkPage(Str(X(49)), <<>>, <<>>)>>),
            MkDoc(FALSE, <<Str(X(5))>>),
            MkDoc(FALSE, <<Str(X(60))>>), <<>>),
      Frame("acquire", MkFile(DotTxt, 1024), FALSE, NoDoc, NoDoc, NoDoc, <<>>),
      Frame("acquire", MkFile(DotPDF, 1024), FALSE,
            NoDoc, MkDoc(FALSE, <<Str(X(51))>>), NoDoc, <<>>),
      Frame("acquire", MkFile(DotPdf, 1024), TRUE,
            MkDoc(FALSE, <<MkPage(Str(<<" ">>), <<>>, <<>>)>>),
            MkDoc(FALSE, <<NoneV>>),
            MkDoc(FALSE, <<RaisedV, Str(<<"a", "b", "\n">>)>>), <<>>) }

ExtractFrames ==
    { Frame("extract", NoFile, FALSE, NoDoc, NoDoc, NoDoc, t) :
        t \in { DocOf(PatternKeys, 1),
                <<Seg("owner", <<X(1)>>), Seg("rental_period", <<Date1, Date2>>)>> } }

\* the frame as it was when the invocation started
Start(l) == Frame(l.kind, l.file, l.try_ocr, l.sdoc, l.pdoc, l.odoc, l.etext)

\* pdf_parser.py 206-276, one statement group at a time, on the frame l
AcquireStep(l, lib, ocr_available, pdf2image) ==
    IF l.pc = "validate"
    THEN IF validate_pdf_file(l.file) THEN [l EXCEPT !.pc = "structured"]
         ELSE [l EXCEPT !.pc = "done", !.ret = NoneV]
    ELSE IF l.pc = "structured"
    THEN IF UseStructured(lib)
         THEN LET t == extract_text_with_table_detection(lib, l.sdoc)
              IN IF AcceptText(t)
                 THEN [l EXCEPT !.text = t, !.pc = "done", !.ret = t]
                 ELSE [l EXCEPT !.text = t, !.pc = "plain"]
         ELSE [l EXCEPT !.pc = "plain"]
    ELSE IF l.pc = "plain"
    THEN IF UsePlain(lib, l.text)
         THEN IF lib = "None" \/ l.pdoc.raises THEN [l EXCEPT !.pc = "ocr"]
              ELSE LET t == Str(Join(MapPages(l.pdoc.pages, "plain"), NL))
                   IN IF AcceptText(t)
                      THEN [l EXCEPT !.text = t, !.pc = "done", !.ret = t]
                      ELSE [l EXCEPT !.text = t, !.pc = "ocr"]
         ELSE [l EXCEPT !.pc = "ocr"]
    ELSE IF l.pc = "ocr"
    THEN IF ~l.try_ocr THEN [l EXCEPT !.pc = "final"]
         ELSE IF l.text = Unbound THEN [l EXCEPT !.pc = "done", !.ret = RaisedV]
         ELSE IF UnderThreshold(l.text)
         THEN LET t == extract_text_from_pdf_images(pdf2image, ocr_available, l.odoc)
              IN IF AcceptOcr(t)
                 THEN [l EXCEPT !.text = AfterOcr(l.text, t), !.pc = "done", !.ret = t]
                 ELSE [l EXCEPT !.text = AfterOcr(l.text, t), !.pc = "final"]
         ELSE [l EXCEPT !.pc = "final"]
    ELSE IF l.text = Unbound THEN [l EXCEPT !.pc = "done", !.ret = RaisedV]
    ELSE IF FinalFailure(l.text) THEN [l EXCEPT !.pc = "done", !.ret = NoneV]
    ELSE [l EXCEPT !.pc = "done", !.ret = l.text]

\* data_extractor.py 339-362, one extractor call at a time, on the frame l
ExtractStep(l) ==
    IF l.k < Len(DataOrder)
    THEN LET key == DataOrder[l.k + 1]
             v == FieldValue(key, l.etext)
         IN IF v = RaisedV THEN [l EXCEPT !.pc = "done", !.ret = RaisedV]
            ELSE [l EXCEPT !.data[key] = v, !.k = @ + 1]
    ELSE [l EXCEPT !.pc = "done", !.ret = Dict(l.data)]

Step(l, lib, ocr_available, pdf2image) ==
    IF l.kind = "acquire" THEN AcquireStep(l, lib, ocr_available, pdf2image)
    ELSE ExtractStep(l)

\* the invocation run to its end with nothing else running
RECURSIVE RunAlone(_, _, _, _)
RunAlone(l, lib, ocr_available, pdf2image) ==
    IF l.pc = "done" THEN l
    ELSE RunAlone(Step(l, lib, ocr_available, pdf2image), lib, ocr_available, pdf2image)

\* text and data kept in one module-level cell, that of invocation 1
Locals_Shared(frames, i) ==
    [frames[i] EXCEPT !.text = frames[1].text, !.data = frames[1].data]

\* text, data and the loop position are locals of the running function
\* (pdf_parser.py 206-276, data_extractor.py 339-349): each invocation reads
\* its own
Locals(frames, i) == frames[i]

\* another invocation has started and not finished
MidRun(frames, i) ==
    \E j \in Invocations \ {i} :
       frames[j].pc # "done" /\ frames[j] # Start(frames[j])

InitConcurrent ==
    /\ PDF_LIBRARY \in {"pdfplumber", "pypdf", "None"}
    /\ OCR_AVAILABLE \in BOOLEAN
    /\ PDF2IMAGE \in BOOLEAN
    /\ pc = "idle"
    /\ file = NoFile
    /\ try_ocr = FALSE
    /\ text = Unbound
    /\ ret = Pending
    /\ calls = <<>>
    /\ log = {}
    /\ handles = {}
    /\ pdf_files = <<>>
    /\ bidx = 0
    /\ stats = Pending
    /\ loggers = <<>>
    /\ patterns = REGEX_PATTERNS
    /\ etext = <<>>
    /\ eop = "none"
    /\ eout = Pending
    /\ inv \in [Invocations -> AcquireFrames \cup ExtractFrames]
    /\ inv[1] # inv[2]

RunStep(i) ==
    /\ inv[i].pc # "done"
    /\ inv' = [inv EXCEPT
                 ![i] = Step(Locals(inv, i), PDF_LIBRARY, OCR_AVAILABLE, PDF2IMAGE)]
    /\ log' = log \cup {<<i, inv[i].pc, inv[i].k, MidRun(inv, i)>>}
    /\ UNCHANGED <<PDF_LIBRARY, OCR_AVAILABLE, PDF2IMAGE, pc, file, try_ocr, text,
                   ret, calls, handles>>
    /\ UNCHANGED <<evars, pdf_files, bidx, stats, loggers>>

\* a statement group of an extract_text_from_pdf invocation
RunAcquire == \E i \in Invocations : inv[i].kind = "acquire" /\ RunStep(i)

\* an extractor call of an extract_all_data invocation
RunExtract == \E i \in Invocations : inv[i].kind = "extract" /\ RunStep(i)

NextConcurrent ==
    \/ RunAcquire
    \/ RunExtract

SpecConcurrent == InitConcurrent /\ [][NextConcurrent]_vars

\* ------------------------------------------------------- the readers alone
\* extract_text_with_table_detection and extract_text_from_pdf_images as
\* functions of the document: etext is what the library shows of it, eout the
\* value returned.  pdfplumber, pdf2image and pytesseract are installed.
ReadableFile == MkFile(DotPdf, 1024)

ReaderInputs ==
    { [reader |-> "structured", doc |-> d] :
         d \in DocsOf(ReadableFile, StructuredPages) }
    \cup { [reader |-> "ocr", doc |-> d] : d \in DocsOf(ReadableFile, OcrPages) }

InitReaders ==
    /\ PDF_LIBRARY = "pdfplumber"
    /\ OCR_AVAILABLE = TRUE
    /\ PDF2IMAGE = TRUE
    /\ pc = "idle"
    /\ file = NoFile
    /\ try_ocr = FALSE
    /\ text = Unbound
    /\ ret = Pending
    /\ calls = <<>>
    /\ log = <<>>
    /\ handles = {}
    /\ BatchAtRest
    /\ patterns = REGEX_PATTERNS
    /\ etext \in ReaderInputs
    /\ eop = "none"
    /\ eout = Pending

StructuredRead ==
    /\ eop = "none"
    /\ etext.reader = "structured"
    /\ eop' = "extract_text_with_table_detection"
    /\ eout' = extract_text_with_table_detection(PDF_LIBRARY, etext.doc)
    /\ UNCHANGED <<etext, patterns, avars, bvars>>

OcrRead ==
    /\ eop = "none"
    /\ etext.reader = "ocr"
    /\ eop' = "extract_text_from_pdf_images"
    /\ eout' = extract_text_from_pdf_images(PDF2IMAGE, OCR_AVAILABLE, etext.doc)
    /\ UNCHANGED <<etext, patterns, avars, bvars>>

NextReaders ==
    \/ StructuredRead
    \/ OcrRead

SpecReaders == InitReaders /\ [][NextReaders]_vars

\* --------------------------------------------------- the registry at import
\* data_extractor is imported with whatever dict settings.REGEX_PATTERNS is:
\* the from-import of lines 14-18 binds the name and looks at no key.
Registries == { [k \in S |-> k] : S \in SUBSET PatternKeys }

RegistryTexts == { <<>>, <<Prose>>, DocOf(PatternKeys, 1) }

InitRegistry ==
    /\ AcqAtRest
    /\ BatchAtRest
    /\ patterns \in Registries
    /\ etext \in RegistryTexts
    /\ eop = "unloaded"
    /\ eout = Pending

ImportModule ==
    /\ eop = "unloaded"
    /\ eop' = "none"
    /\ UNCHANGED <<etext, eout, patterns, avars, bvars>>

NextRegistry ==
    \/ ImportModule
    \/ ExtractAllData
    \/ ExtractRentalInfo

SpecRegistry == InitRegistry /\ [][NextRegistry]_vars

\* ------------------------------------------------------- the text normalizer
\* clean_text and is_empty_marker as pure functions of one argument: etext is
\* the argument (None or a string), eout the value returned.
MaxLen == 4

Alphabet == {" ", "\n", "-", "N", "n", "o"}

\* the placeholder tokens of settings.EMPTY_DATA_MARKERS
EMPTY_DATA_MARKERS == { <<"-">>, <<"N", "o">> }

Bool(b) == [kind |-> "Bool", val |-> b]

\* text.strip().lower() in [m.lower() for m in EMPTY_DATA_MARKERS], compared
\* with the case of the input kept
is_empty_marker_CaseSensitive(v) ==
    IF ~Truthy(v) THEN TRUE
    ELSE Strip(v.val) \in { Lower(m) : m \in EMPTY_DATA_MARKERS }

is_empty_marker(v) ==
    IF ~Truthy(v) THEN TRUE
    ELSE Lower(Strip(v.val)) \in { Lower(m) : m \in EMPTY_DATA_MARKERS }

NormalizerInputs == {NoneV} \cup { Str(s) : s \in SeqsUpTo(Alphabet, MaxLen) }

InitNormalizer ==
    /\ AcqAtRest
    /\ BatchAtRest
    /\ patterns = REGEX_PATTERNS
    /\ etext \in NormalizerInputs
    /\ eop = "none"
    /\ eout = Pending

\* clean_text(None) takes the branch of the empty string: None carries the
\* empty val
CleanText ==
    /\ eop = "none"
    /\ eop' = "clean_text"
    /\ eout' = Str(clean_text(etext.val))
    /\ UNCHANGED <<etext, patterns, avars, bvars>>

IsEmptyMarker ==
    /\ eop = "none"
    /\ eop' = "is_empty_marker"
    /\ eout' = Bool(is_empty_marker(etext))
    /\ UNCHANGED <<etext, patterns, avars, bvars>>

NextNormalizer ==
    \/ CleanText
    \/ IsEmptyMarker

SpecNormalizer == InitNormalizer /\ [][NextNormalizer]_vars

\* ==================================================================== claims
Last(q) == q[Len(q)]
\* a strategy produced no text, or text whose trimmed length is below n
Below(out, n) == out.kind # "Str" \/ Len(Strip(out.val)) < n
\* the strategies of the given name invoked so far
Ran(name) == { i \in 1..Len(calls) : calls[i].name = name }
\* a reader (not OCR) yielded a string
ReaderText(i) == calls[i].name # "ocr" /\ calls[i].out.kind = "Str"

\* C1 (as stated): with try_ocr = false, a document whose readers yield only
\* text of trimmed length below 50 makes the call return None.
C1_UnderThresholdIsNone ==
    (/\ pc = "done"
     /\ ~try_ocr
     /\ calls # <<>>
     /\ \A i \in 1..Len(calls) :
           calls[i].out.kind = "Str" /\ Len(Strip(calls[i].out.val)) < 50)
    => ret = NoneV

\* C1 (amended): with try_ocr = false, the text the last reader yielded is
\* returned as it is when its trimmed length is at least 5, under-threshold
\* text of 5..50 characters included; the call returns None when that length
\* is below 5.
C1_FloorDecides ==
    (/\ pc = "done"
     /\ ~try_ocr
     /\ calls # <<>>
     /\ Last(calls).out.kind = "Str")
    => ret = IF Len(Strip(Last(calls).out.val)) < 5 THEN NoneV
             ELSE Last(calls).out

C1_Witness ==
    /\ pc = "done"
    /\ ~try_ocr
    /\ calls # <<>>
    /\ Last(calls).out.kind = "Str"
    /\ Len(Strip(Last(calls).out.val)) \in 1..4
    /\ ret = NoneV

\* C2: every call of extract_text_from_pdf ends by returning a string or
\* None; it never raises.
C2_NeverRaises == pc = "done" => ret.kind \in {"Str", "None"}

\* what the claim calls an invalid input
InvalidInput(f) ==
    \/ ~f.exists
    \/ Lower(f.suffix) \notin VALID_EXTENSIONS
    \/ f.size > SizeCap

\* C3: for a missing, wrongly named or oversized file the call returns None
\* and no reader and no OCR is invoked at any point of the call.
C3_PreflightFirst ==
    (pc # "idle" /\ InvalidInput(file))
    => /\ calls = <<>>
       /\ pc \in {"validate", "done"}
       /\ pc = "done" => ret = NoneV

C3_Witness ==
    /\ pc = "done"
    /\ file.exists
    /\ file.size > SizeCap
    /\ ret = NoneV
    /\ calls = <<>>

\* C4: a non-existent path or a zero-byte file yields None, without raising,
\* and the log holds a pre-flight (invalid input) error.
C4_MissingOrEmptyRejected ==
    (pc = "done" /\ (~file.exists \/ file.size = 0))
    => /\ ret = NoneV
       /\ \E i \in 1..Len(log) :
             log[i] \in {"FileNotFound", "BadExtension", "TooBig"}

\* C5: OCR is invoked only with try_ocr = true and after every earlier
\* strategy stayed under 50 characters; a reader text of trimmed length 50 or
\* more is returned and OCR is not invoked.
C5_OcrOnlyWhenNeeded ==
    /\ \A i \in Ran("ocr") :
          /\ try_ocr
          /\ i > 1
          /\ \A j \in 1..(i - 1) : Below(calls[j].out, 50)
    /\ \A j \in 1..Len(calls) :
          (ReaderText(j) /\ ~Below(calls[j].out, 50))
          => /\ Ran("ocr") = {}
             /\ pc = "done" => ret = calls[j].out

C5_Witness ==
    /\ pc = "done"
    /\ try_ocr
    /\ calls # <<>>
    /\ ReaderText(Len(calls))
    /\ Len(Strip(Last(calls).out.val)) = 50
    /\ ret = Last(calls).out

\* C6: once the structured reader has ended under the threshold (or failed),
\* the plain reader is the next strategy attempted, before OCR and before the
\* chain gives up.
C6_PlainFollowsStructured ==
    \A i \in Ran("structured") :
       (Below(calls[i].out, 50) /\ (pc \in {"final", "done"} \/ Len(calls) > i))
       => /\ Len(calls) > i
          /\ calls[i + 1].name = "plain"

\* C7: whatever text OCR returns, even under 50 characters, is what the call
\* returns.
C7_OcrTextAccepted ==
    \A i \in Ran("ocr") :
       (pc = "done" /\ calls[i].out.kind = "Str") => ret = calls[i].out

C7_Witness ==
    /\ pc = "done"
    /\ Ran("ocr") # {}
    /\ Last(calls).name = "ocr"
    /\ Last(calls).out.kind = "Str"
    /\ Len(Strip(Last(calls).out.val)) < 5
    /\ ret = Last(calls).out

\* C8 (as stated): no call returns a string whose trimmed length is below 5.
C8_NoResultBelowFloor ==
    (pc = "done" /\ ret.kind = "Str") => Len(Strip(ret.val)) >= 5

\* C8 (amended): a text of the structured or plain reader whose trimmed length
\* is below 5 is never returned: the call returns None, or the text OCR
\* produced; a returned string of trimmed length below 5 is always the OCR
\* result.
C8_FloorApartFromOcr ==
    /\ (/\ pc = "done"
        /\ \E j \in 1..Len(calls) : ReaderText(j) /\ Below(calls[j].out, 5))
       => \/ ret = NoneV
          \/ \E i \in Ran("ocr") : ret = calls[i].out
    /\ (pc = "done" /\ ret.kind = "Str" /\ Len(Strip(ret.val)) < 5)
       => \E i \in Ran("ocr") : ret = calls[i].out

C8_Witness ==
    /\ pc = "done"
    /\ try_ocr
    /\ Len(calls) > 1
    /\ ReaderText(1)
    /\ Below(calls[1].out, 5)
    /\ Last(calls).name = "ocr"
    /\ ret = NoneV

\* the text holds a passage the rule of this key matches
Has(key) == \E i \in 1..Len(etext) : etext[i].label = key
RentalMatched == Has("rent_type") \/ Has("rental_period") \/ Has("tenant")

\* C9: the record extract_all_data returns holds all eight keys whatever
\* matched; an unmatched field is present with value None.
C9_AllEightKeys ==
    eop = "extract_all_data"
    => /\ eout.kind = "Dict"
       /\ DOMAIN eout.val =
             { "cadastral_number", "address", "area", "owner", "permitted_use",
               "cadastral_cost", "land_category", "rental_data" }
       /\ \A k \in { "cadastral_number", "address", "area", "owner",
                     "permitted_use", "cadastral_cost", "land_category" } :
             ~Has(k) => eout.val[k] = NoneV
       /\ ~RentalMatched => eout.val["rental_data"] = NoneV

C9_Witness ==
    /\ eop = "extract_all_data"
    /\ etext # <<>>
    /\ \A k \in PatternKeys : ~Has(k)
    /\ Cardinality(DOMAIN eout.val) = 8
    /\ \A k \in DOMAIN eout.val : eout.val[k] = NoneV

\* C10: extract_rental_info returns None exactly when none of the three
\* lookups matched; otherwise the structure holds exactly the matched parts,
\* and period_start and period_end come together from one match.
C10_RentalExactlyMatched ==
    eop = "extract_rental_info"
    => /\ eout = NoneV <=> ~RentalMatched
       /\ RentalMatched
          => /\ eout.kind = "Dict"
             /\ DOMAIN eout.val =
                   (IF Has("rent_type") THEN {"rent_type"} ELSE {})
                   \cup (IF Has("rental_period")
                         THEN {"period_start", "period_end"} ELSE {})
                   \cup (IF Has("tenant") THEN {"tenant"} ELSE {})
             /\ Has("rental_period")
                => \E i \in 1..Len(etext) :
                      /\ etext[i].label = "rental_period"
                      /\ eout.val["period_start"] = etext[i].groups[1]
                      /\ eout.val["period_end"] = etext[i].groups[2]

C10_Witness ==
    /\ eop = "extract_rental_info"
    /\ Has("rental_period")
    /\ Has("tenant")
    /\ ~Has("rent_type")
    /\ eout.kind = "Dict"
    /\ DOMAIN eout.val = {"period_start", "period_end", "tenant"}

\* C11: a rental structure that is returned has at least one sub-field that
\* is populated with a non-empty value; otherwise None is returned.
C11_RentalNeverHollow ==
    eop = "extract_rental_info" /\ eout.kind = "Dict"
    => \E k \in DOMAIN eout.val : eout.val[k] # <<>>

\* C12: clean_text is idempotent, for None and the empty string too, and its
\* result has no two consecutive whitespace characters and no whitespace at
\* either end.
C12_CleanIdempotentAndTight ==
    eop = "clean_text"
    => /\ clean_text(eout.val) = eout.val
       /\ LeadWS(eout.val) = 0
       /\ TrailWS(eout.val) = 0
       /\ \A i \in 1..(Len(eout.val) - 1) :
             ~(eout.val[i] \in WS /\ eout.val[i + 1] \in WS)

C12_Witness ==
    /\ eop = "clean_text"
    /\ etext = Str(<<"n", "\n", " ", "o">>)
    /\ eout = Str(<<"n", " ", "o">>)

\* C13: is_empty_marker is true exactly for the strings that equal, letter
\* case ignored, one of the placeholder tokens, and false for anything else.
C13_ExactlyTheMarkers ==
    eop = "is_empty_marker"
    => (eout.val <=> /\ etext.kind = "Str"
                     /\ Lower(etext.val) \in { Lower(m) : m \in EMPTY_DATA_MARKERS })

\* C13 as the code has it: true for None and the empty string, and otherwise
\* exactly when the text with the whitespace at its ends removed equals,
\* letter case ignored, one of the placeholder tokens.
C13_MarkersAfterTrimOrEmpty ==
    eop = "is_empty_marker"
    => (eout.val <=> \/ etext = NoneV
                     \/ etext.val = <<>>
                     \/ \E m \in EMPTY_DATA_MARKERS :
                           /\ Len(Strip(etext.val)) = Len(m)
                           /\ \A i \in 1..Len(m) :
                                 Lower(<<Strip(etext.val)[i]>>) = Lower(<<m[i]>>))

C13_Witness ==
    /\ eop = "is_empty_marker"
    /\ etext = Str(<<" ", "n", "o", "\n">>)
    /\ eout = Bool(TRUE)

ScalarKeys ==
    { "cadastral_number", "address", "area", "owner", "permitted_use",
      "cadastral_cost", "land_category" }
CleanedKeys ==
    { "address", "owner", "permitted_use", "cadastral_cost", "land_category" }

\* group n of the first passage the rule of a key matches
Captured(key, n) == etext[search(key, etext)].groups[n]

\* C14: a field whose pattern captured a placeholder token is stored as None;
\* no field of the record holds a placeholder token.
C14_MarkerStoredAsNone ==
    eop = "extract_all_data" /\ eout.kind = "Dict"
    => \A k \in ScalarKeys :
          /\ eout.val[k].kind = "Str"
             => Lower(Strip(eout.val[k].val))
                   \notin { Lower(m) : m \in EMPTY_DATA_MARKERS }
          /\ Has(k) /\ is_empty_marker(Str(Captured(k, 1)))
             => eout.val[k] = NoneV

C17_MissingRuleFatalAtStartup ==
    eop \in {"extract_all_data", "extract_rental_info"}
    => /\ PatternKeys \subseteq DOMAIN patterns
       /\ eout # RaisedV

\* the record the row was built from
RowData == extract_all_data(etext).val
RowRental == RowData["rental_data"].val

\* C18: every non-null field of the record, cadastral cost, land category
\* and each rental sub-field included, is carried into the row and can be
\* read back from it unchanged.
C18_RoundTripAllFields ==
    eop = "create_row"
    => /\ \A k \in ScalarKeys :
             RowData[k] # NoneV
             => \E c \in EXCEL_COLUMNS \ {ColNumber, ColSource} :
                   eout.val[c] = RowData[k].val
       /\ RowData["rental_data"] # NoneV
          => /\ "tenant" \in DOMAIN RowRental
                => eout.val[ColTenant] = RowRental["tenant"]
             /\ eout.val[ColEncumbrance] = Join(RentalInfoParts(RowRental), PartsSep)

\* C18 as the code has it: cadastral number, address, area, owner and
\* permitted use are carried unchanged in their own columns and the tenant
\* in its own; a non-empty rent type and the period (both dates) are carried
\* inside the one encumbrance text; every other column but the row number and
\* the source file is left empty, so cadastral cost and land category are not
\* carried.
C18_CarriedFieldsOnly ==
    eop = "create_row"
    => /\ \A k \in DOMAIN FieldColumn :
             eout.val[FieldColumn[k]] = RowData[k].val
       /\ eout.val[ColTenant] =
             (IF RowData["rental_data"] # NoneV /\ "tenant" \in DOMAIN RowRental
              THEN RowRental["tenant"] ELSE <<>>)
       /\ eout.val[ColEncumbrance] =
             (IF RowData["rental_data"] = NoneV THEN <<>>
              ELSE (IF "rent_type" \in DOMAIN RowRental /\ RowRental["rent_type"] # <<>>
                    THEN TypePrefix \o RowRental["rent_type"] ELSE <<>>)
                   \o (IF "rent_type" \in DOMAIN RowRental
                          /\ RowRental["rent_type"] # <<>>
                          /\ "period_start" \in DOMAIN RowRental
                       THEN PartsSep ELSE <<>>)
                   \o (IF "period_start" \in DOMAIN RowRental
                       THEN PeriodPrefix \o RowRental["period_start"]
                            \o PeriodDash \o RowRental["period_end"]
                       ELSE <<>>))
       /\ eout.val[ColNotes] = <<>>
       /\ DOMAIN eout.val = EXCEL_COLUMNS
       /\ eout.val[ColNumber] \in RowNumbers
       /\ eout.val[ColSource] \in FileNames

C18_Witness ==
    /\ eop = "create_row"
    /\ etext = DocOf(PatternKeys, 1)
    /\ RowData["cadastral_cost"] = Str(X(1))
    /\ RowData["land_category"] = Str(X(1))
    /\ eout.val[ColOwner] = X(1)
    /\ eout.val[ColTenant] = X(1)
    /\ eout.val[ColEncumbrance] =
          TypePrefix \o X(1) \o PartsSep \o PeriodPrefix \o Date1 \o PeriodDash
          \o Date2

\* C19: extract_all_data is called on the acquired text only when the text
\* is longer than 20 characters; a document whose text is absent or at most
\* 20 characters long is reported as failed and not parsed.
C19_ParsedOnlyAboveFloor ==
    eop \in {"extract_all_data", "failed"}
    => (eop = "extract_all_data"
           <=> ret.kind = "Str" /\ Len(ret.val) > 20)

\* how the processing of a file fails, by what the query returned for it
NoData(pdf) ==
    \/ pdf.answer.kind = "None"
    \/ pdf.answer.kind = "Dict" /\ DOMAIN pdf.answer.val = {}
RowBuildFails(pdf) ==
    \/ pdf.answer.kind = "List"
    \/ /\ pdf.answer.kind = "Dict"
       /\ "rental_data" \in DOMAIN pdf.answer.val
       /\ pdf.answer.val["rental_data"].kind = "Str"

\* C20: in process_all_pdfs_ai a file whose processing fails (no data, or an
\* exception while its row is built) adds exactly one error row tagged with
\* the reason, and the loop goes on: row i is the row of file i whatever
\* happened to the other files, and the batch is never aborted.
C20_BatchFaultIsolation ==
    /\ stats.kind # "Raised"
    /\ stats.kind \in {"Running", "Returned"}
       => /\ Len(stats.val.rows) = bidx
          /\ stats.val.total_files = Len(pdf_files)
          /\ stats.kind = "Returned" => bidx = Len(pdf_files)
          /\ \A i \in 1..bidx :
                LET pdf == pdf_files[i]
                    row == stats.val.rows[i]
                IN /\ row[ColNumber] = i
                   /\ IF NoData(pdf)
                      THEN /\ row[ColSource] = pdf.name \o ErrorTag
                           /\ row[ColNotes] = ErrorPrefix \o NoDataMessage
                      ELSE IF RowBuildFails(pdf)
                      THEN /\ row[ColSource] = pdf.name \o ErrorTag
                           /\ row[ColNotes] = ErrorPrefix \o AttributeErrorMessage
                      ELSE /\ row[ColSource] = pdf.name
                           /\ row[ColNotes] = <<>>

C20_Witness ==
    /\ stats.kind = "Returned"
    /\ Len(pdf_files) = 3
    /\ ~NoData(pdf_files[1]) /\ ~RowBuildFails(pdf_files[1])
    /\ RowBuildFails(pdf_files[2])
    /\ NoData(pdf_files[3])
    /\ Len(stats.val.rows) = 3
    /\ stats.val.rows[1][ColSource] = pdf_files[1].name
    /\ stats.val.rows[2][ColNotes] = ErrorPrefix \o AttributeErrorMessage
    /\ stats.val.rows[3][ColNotes] = ErrorPrefix \o NoDataMessage
    /\ stats.val.successful = 1
    /\ stats.val.failed = 2

Stored(k, g) ==
    IF k = "cadastral_number" THEN g
    ELSE IF k = "area" THEN Strip(g)
    ELSE clean_text(g)

\* C23: each field comes from one lookup of its one pattern, first match
\* wins: the stored value is taken from the first passage in document order
\* that the pattern matches, and a field whose pattern matches nothing is
\* None, whatever else the text holds.
C23_FirstMatchWins ==
    eop = "extract_all_data" /\ eout.kind = "Dict"
    => \A k \in ScalarKeys :
          IF Has(k)
          THEN \E i \in 1..Len(etext) :
                  /\ etext[i].label = k
                  /\ \A j \in 1..(i - 1) : etext[j].label # k
                  /\ eout.val[k] = Str(Stored(k, etext[i].groups[1]))
          ELSE eout.val[k] = NoneV

C23_Witness ==
    /\ eop = "extract_all_data"
    /\ etext = << Seg("owner", << <<"-">> >>), Seg("owner", << X(1) >>) >>
    /\ eout.val["owner"] = Str(<<"-">>)
    /\ eout.val["address"] = NoneV

\* what a page adds to the result, as the claim describes it
PageSegment(p) ==
    LET raw == IF p.text.kind = "Str" THEN p.text.val ELSE <<>>
        withRows == IF p.tables # <<>> THEN raw \o NL \o TableText(p.tables)
                    ELSE raw
    IN IF Len(Strip(raw)) >= 5 THEN raw
       ELSE IF Len(Strip(withRows)) < 5 THEN withRows \o p.chars
       ELSE withRows

AllSegments(pages) == Join([i \in 1..Len(pages) |-> PageSegment(pages[i])], NL)

\* C24: in the structured strategy a page with 5 or more characters of text
\* never has table rows appended, a page under that floor has its table rows
\* appended pipe-joined, and the result is the texts of the pages in page
\* order joined by newlines, one per page.
C24_TablesUnderFloorOnly ==
    eop = "extract_text_with_table_detection"
    => /\ eout.kind = "Str" => eout.val = AllSegments(etext.doc.pages)
       /\ eout.kind \in {"Str", "None"}
       /\ eout = NoneV
          <=> \/ etext.doc.raises
              \/ Strip(AllSegments(etext.doc.pages)) = <<>>

C24_Witness ==
    /\ eop = "extract_text_with_table_detection"
    /\ Len(etext.doc.pages) = 2
    /\ etext.doc.pages[1] = MkPage(Str(X(5)), << << <<X(2)>> >> >>, <<>>)
    /\ etext.doc.pages[2].text = Str(<<" ">>)
    /\ etext.doc.pages[2].tables # <<>>
    /\ eout = Str(X(5) \o NL \o <<" ">> \o NL \o X(1) \o Bar \o X(2) \o NL \o X(1))

IsText(p) == p.kind = "Str"

\* C29: in the OCR strategy a recognition error on a page skips that page
\* only: the result is the texts of the recognised pages joined in page order
\* by newlines, or None when that text is blank.
C29_OcrPageErrorSkipped ==
    eop = "extract_text_from_pdf_images" /\ ~etext.doc.raises
    => LET good == SelectSeq(etext.doc.pages, IsText)
           joined == Join([i \in 1..Len(good) |-> good[i].val], NL)
       IN eout = IF Strip(joined) = <<>> THEN NoneV ELSE Str(joined)

C29_Witness ==
    /\ eop = "extract_text_from_pdf_images"
    /\ etext.doc.pages = << RaisedV, Str(X(5)) >>
    /\ eout = Str(X(5))

\* C27: when OCR is attempted and yields no text the call returns None: the
\* under-threshold text of the earlier reader is overwritten and is not
\* returned, even when its trimmed length is 5 or more.
C27_OcrNoneOverwrites ==
    (pc = "done" /\ \E i \in Ran("ocr") : calls[i].out = NoneV)
    => /\ ret = NoneV
       /\ text = NoneV

C27_Witness ==
    /\ pc = "done"
    /\ try_ocr
    /\ Len(calls) >= 2
    /\ Last(calls) = Invoked("ocr", NoneV)
    /\ \E j \in 1..(Len(calls) - 1) :
          /\ ReaderText(j)
          /\ Len(Strip(calls[j].out.val)) >= 5
          /\ Len(Strip(calls[j].out.val)) < 50
    /\ ret = NoneV

\* C28: a result of extract_text_from_pdf that is not None is a string that
\* is not blank, and with try_ocr = false its trimmed length is at least 5.
C28_ResultNonBlank ==
    (pc = "done" /\ ret.kind \notin {"None", "Raised"})
    => /\ ret.kind = "Str"
       /\ Strip(ret.val) # <<>>
       /\ ~try_ocr => Len(Strip(ret.val)) >= 5

C28_Witness ==
    /\ pc = "done"
    /\ ~try_ocr
    /\ ret.kind = "Str"
    /\ Len(Strip(ret.val)) = 5

\* C26: while process_all_pdfs_ai runs and when it has returned,
\* successful + failed equals the number of rows collected and the number of
\* documents processed so far; at the return the sum equals total_files, and
\* the i-th row is the row of the i-th input file.
C26_CountersMatchRows ==
    stats.kind \in {"Running", "Returned"}
    => /\ stats.val.successful + stats.val.failed = Len(stats.val.rows)
       /\ Len(stats.val.rows) = bidx
       /\ stats.val.total_files = Len(pdf_files)
       /\ stats.kind = "Returned"
             => stats.val.successful + stats.val.failed = stats.val.total_files
       /\ \A i \in 1..Len(stats.val.rows) :
             stats.val.rows[i] = process_single_pdf_with_ai(pdf_files[i], i).row

C26_Witness ==
    /\ stats.kind = "Returned"
    /\ stats.val.total_files = 3
    /\ stats.val.successful = 2
    /\ stats.val.failed = 1
    /\ Len(stats.val.rows) = 3
    /\ stats.val.rows[1] # stats.val.rows[2]

\* the pattern stored under key matches the value v
Matches(key, v) ==
    /\ v.kind = "Str"
    /\ key \in DOMAIN patterns
    /\ patterns[key] # ""
    /\ \E i \in 1..Len(v.val) : v.val[i] \in ClassOf(patterns[key])

\* the mappings before and after have the same keys, and hold the same
\* values except under the keys of normalised, where a value differs only
\* if the pattern of its key (patkey) matches it
SameBut(before, after, normalised, patkey) ==
    /\ DOMAIN after = DOMAIN before
    /\ \A k \in DOMAIN before :
          after[k] # before[k]
          => /\ k \in normalised
             /\ Matches(patkey[k], before[k])

\* C25: normalize_with_patterns returns a non-mapping input as is; for a
\* mapping the result has the same keys at the top level and inside
\* rental_data, only cadastral_number, area, cadastral_cost, period_start
\* and period_end may change, and each only when its pattern matches it.
C25_StructureKept ==
    eop = "normalize_with_patterns"
    => IF etext.kind # "Dict" THEN eout = etext
       ELSE /\ eout.kind = "Dict"
            /\ SameBut([k \in DOMAIN etext.val \ {"rental_data"} |-> etext.val[k]],
                       [k \in DOMAIN eout.val \ {"rental_data"} |-> eout.val[k]],
                       {"cadastral_number", "area", "cadastral_cost"},
                       [k \in {"cadastral_number", "area", "cadastral_cost"} |-> k])
            /\ ("rental_data" \in DOMAIN eout.val) = ("rental_data" \in DOMAIN etext.val)
            /\ "rental_data" \in DOMAIN etext.val
               => IF etext.val["rental_data"].kind # "Dict"
                  THEN eout.val["rental_data"] = etext.val["rental_data"]
                  ELSE /\ eout.val["rental_data"].kind = "Dict"
                       /\ SameBut(etext.val["rental_data"].val,
                                  eout.val["rental_data"].val,
                                  {"period_start", "period_end"},
                                  [k \in {"period_start", "period_end"} |-> "date"])

C25_Witness ==
    /\ eop = "normalize_with_patterns"
    /\ etext.kind = "Dict"
    /\ DOMAIN etext.val =
          {"cadastral_number", "area", "cadastral_cost", "owner", "rental_data"}
    /\ eout.val["cadastral_number"] = Str(<<"1", ":", "1">>)
    /\ eout.val["owner"] = Str(<<"x", "1", ":">>)
    /\ etext.val["rental_data"].kind = "Dict"
    /\ DOMAIN etext.val["rental_data"].val = {"period_start", "period_end", "tenant"}
    /\ eout.val["rental_data"].val["period_start"] = Str(<<"1", ".", "1">>)
    /\ eout.val["rental_data"].val["tenant"] = Str(<<"1", ".">>)
    /\ eout.val["area"] = etext.val["area"]

\* C30: after any sequence of setup_logger calls a logger of the program
\* carries no handler, or exactly the rotating file handler and the console
\* handler added by the first call for it that returned; a call for a logger
\* that already has handlers changes no handler and returns that logger.
C30_SetupLoggerOnce ==
    /\ [](\A n \in ModuleLoggers :
            loggers[n].handlers \in
               { <<>>,
                 <<Handler("RotatingFileHandler", 1), Handler("StreamHandler", 1)>> })
    /\ [][\A n \in ModuleLoggers :
            loggers[n].handlers # <<>>
            => /\ loggers'[n].handlers = loggers[n].handlers
               /\ loggers'[n].setups > loggers[n].setups => eout' = Str(n)]_vars

C30_Witness ==
    /\ eop = "setup_logger"
    /\ eout = Str("src.pdf_parser")
    /\ loggers["src.pdf_parser"].setups = 3
    /\ Len(loggers["src.pdf_parser"].handlers) = 2
    /\ loggers["src"].setups = 2
    /\ Len(loggers["src"].handlers) = 2
    /\ loggers["main"].setups = 1
    /\ loggers["root"].handlers = <<>>

=============================================================================
